---- MODULE Spec2Model ----
(***************************************************************************)
(* Model of 03_finalize_fbref.py: the one-shot finalizer that loads the    *)
(* merged player-season CSV, coalesces the _standard/_misc identity        *)
(* columns, normalises strings, coerces numeric columns, deduplicates by   *)
(* row completeness, filters out the current season and writes CSV and     *)
(* Parquet.                                                                *)
(*                                                                         *)
(* A text is a sequence of one-character strings; the characters that have *)
(* no ASCII form are written as tokens: "EM" (U+2014 em dash), "THIN"      *)
(* (U+2009 thin space), "NBSP" (U+00A0 no-break space).  A data frame is   *)
(* column-major, as in pandas: an index (the row labels), a set of         *)
(* columns, one sequence of cells per column and one dtype per column.     *)
(***************************************************************************)
EXTENDS Integers, Sequences, FiniteSets, TLC

VARIABLES
    pc,          \* the statement of main() that runs next
    inputCsv,    \* the file at INPUT_CSV: Missing, or a table of texts
    df,          \* main()'s local df (NoFrame before the load)
    given,       \* the frame dedupe_rows was called with (NoFrame before the call)
    historical,  \* main()'s local historical (NoFrame before the split)
    outDir,      \* whether OUTPUT_DIR exists
    outCsv,      \* big5_player_season_final.csv: NoFile or the frame written
    outParquet,  \* big5_player_season_final.parquet: NoFile or the frame written
    stdout       \* the lines printed so far

vars == <<pc, inputCsv, df, given, historical, outDir, outCsv, outParquet, stdout>>

----------------------------------------------------------------------------
(* Bounds of the model *)

MaxRows == 2          \* rows of an input table of the pipeline
MaxCellLen == 3       \* characters of a cell of the integer-column inputs
MaxCompanions == 1    \* further cells next to it in the integer-column inputs
MaxVaried == 1        \* identity fields that carry data in the canonicalisation inputs

----------------------------------------------------------------------------
(* Cells *)

NA == [t |-> "na", s |-> <<>>, n |-> 0, d |-> 0]
Str(txt) == [t |-> "str", s |-> txt, n |-> 0, d |-> 0]
\* the number n / 10^d, d decimals, no trailing zero decimal
Num(n, d) == [t |-> "num", s |-> <<>>, n |-> n, d |-> d]

IsNA(c) == c.t = "na"
NotNA(c) == c.t # "na"

Range(f) == {f[x] : x \in DOMAIN f}

RECURSIVE SeqsUpTo(_, _)
SeqsUpTo(S, k) ==
    IF k = 0 THEN {<<>>}
    ELSE LET shorter == SeqsUpTo(S, k - 1)
         IN shorter \cup {Append(q, x) : q \in {r \in shorter : Len(r) = k - 1}, x \in S}

----------------------------------------------------------------------------
(* Numbers and their text *)

DigitChars == {"0", "1", "2", "3", "4", "5", "6", "7", "8", "9"}

DigitVal(c) ==
    CASE c = "0" -> 0 [] c = "1" -> 1 [] c = "2" -> 2 [] c = "3" -> 3 [] c = "4" -> 4
      [] c = "5" -> 5 [] c = "6" -> 6 [] c = "7" -> 7 [] c = "8" -> 8 [] c = "9" -> 9

DigitChar(k) ==
    CASE k = 0 -> "0" [] k = 1 -> "1" [] k = 2 -> "2" [] k = 3 -> "3" [] k = 4 -> "4"
      [] k = 5 -> "5" [] k = 6 -> "6" [] k = 7 -> "7" [] k = 8 -> "8" [] k = 9 -> "9"

RECURSIVE DigitsValue(_)
DigitsValue(ds) ==
    IF ds = <<>> THEN 0
    ELSE 10 * DigitsValue(SubSeq(ds, 1, Len(ds) - 1)) + DigitVal(ds[Len(ds)])

RECURSIVE Normalise(_, _)
Normalise(n, d) ==
    IF d > 0 /\ n % 10 = 0 THEN Normalise(n \div 10, d - 1) ELSE Num(n, d)

\* The number a text denotes, or NA when it denotes none: an optional minus
\* sign, digits, at most one decimal point, at least one digit.
ParseNumber(txt) ==
    LET neg == Len(txt) > 0 /\ txt[1] = "-"
        body == IF neg THEN Tail(txt) ELSE txt
        dots == {i \in 1..Len(body) : body[i] = "."}
        wellFormed == /\ \A i \in 1..Len(body) : body[i] \in DigitChars \cup {"."}
                      /\ Cardinality(dots) <= 1
                      /\ \E i \in 1..Len(body) : body[i] \in DigitChars
    IN IF ~wellFormed THEN NA
       ELSE LET digits == SelectSeq(body, LAMBDA c : c # ".")
                d == IF dots = {} THEN 0 ELSE Len(body) - (CHOOSE i \in dots : TRUE)
                v == DigitsValue(digits)
            IN Normalise(IF neg THEN 0 - v ELSE v, d)

IsIntegral(c) == c.t = "num" /\ c.d = 0

RECURSIVE NatText(_)
NatText(k) == IF k < 10 THEN <<DigitChar(k)>> ELSE Append(NatText(k \div 10), DigitChar(k % 10))

RECURSIVE Pow10(_)
Pow10(d) == IF d = 0 THEN 1 ELSE 10 * Pow10(d - 1)

RECURSIVE PadLeft(_, _)
PadLeft(txt, w) == IF Len(txt) >= w THEN txt ELSE PadLeft(<<"0">> \o txt, w)

\* str() of a number, as astype("string") writes it
FormatNumber(c) ==
    LET a == IF c.n < 0 THEN 0 - c.n ELSE c.n
        whole == NatText(a \div Pow10(c.d))
        frac == IF c.d = 0 THEN <<>> ELSE <<".">> \o PadLeft(NatText(a % Pow10(c.d)), c.d)
    IN (IF c.n < 0 THEN <<"-">> ELSE <<>>) \o whole \o frac

----------------------------------------------------------------------------
(* pandas primitives on one column *)

\* Series.astype("string"): every present value becomes its text
AsString(c) ==
    CASE c.t = "na" -> NA
      [] c.t = "str" -> c
      [] c.t = "num" -> Str(FormatNumber(c))

\* Series.str.replace(chars, ""): the characters are removed wherever they stand
StrRemove(c, chars) ==
    IF c.t = "str" THEN Str(SelectSeq(c.s, LAMBDA x : x \notin chars)) ELSE c

Blank == {" "}

RECURSIVE LStrip(_)
LStrip(txt) == IF txt # <<>> /\ txt[1] \in Blank THEN LStrip(Tail(txt)) ELSE txt

RECURSIVE RStrip(_)
RStrip(txt) ==
    IF txt # <<>> /\ txt[Len(txt)] \in Blank THEN RStrip(SubSeq(txt, 1, Len(txt) - 1)) ELSE txt

\* Series.str.strip()
StrStrip(c) == IF c.t = "str" THEN Str(LStrip(RStrip(c.s))) ELSE c

\* Series.replace({"": pd.NA})
EmptyToNA(c) == IF c.t = "str" /\ c.s = <<>> THEN NA ELSE c

\* pd.to_numeric(errors="coerce") on one value: the empty text and every text
\* that is no number become missing
ToNumeric(c) ==
    CASE c.t = "na" -> NA
      [] c.t = "num" -> c
      [] c.t = "str" -> ParseNumber(c.s)

----------------------------------------------------------------------------
(* Settings and column lists *)

CURRENT_SEASON == <<"2", "0", "2", "4", "-", "2", "0", "2", "5">>

CanonFields == <<"nationality", "country_code", "position", "age", "birth_year">>

StandardCol(f) ==
    CASE f = "nationality" -> "nationality_standard"
      [] f = "country_code" -> "country_code_standard"
      [] f = "position" -> "position_standard"
      [] f = "age" -> "age_standard"
      [] f = "birth_year" -> "birth_year_standard"

MiscCol(f) ==
    CASE f = "nationality" -> "nationality_misc"
      [] f = "country_code" -> "country_code_misc"
      [] f = "position" -> "position_misc"
      [] f = "age" -> "age_misc"
      [] f = "birth_year" -> "birth_year_misc"

to_drop == {"nationality_standard", "country_code_standard", "position_standard",
            "age_standard", "birth_year_standard",
            "nationality_misc", "country_code_misc", "position_misc",
            "age_misc", "birth_year_misc"}

KeyCols == <<"player", "team", "league", "season">>

canon_str == <<"player", "team", "league", "season", "nationality", "country_code", "position">>

int_cols == <<"age", "birth_year", "matches_played", "starts", "minutes",
              "goals", "assists", "goals_and_assists", "non_penalty_goals",
              "pens_scored", "pens_attempted", "fouls_drawn", "offsides", "pkwon",
              "progressive_carries", "prgp">>

float_cols == <<"goals_per90", "assists_per90", "goals_and_assists_per90",
                "non_penalty_goals_per90", "xg_expected_goals", "npxg_non_penalty_xg",
                "xag_expected_assisted_goals", "npxg+xag", "non_penalty_goals_and_assists">>

----------------------------------------------------------------------------
(* Files and frames *)

Missing == [exists |-> FALSE, columns |-> {}, nrows |-> 0, text |-> <<>>]
CsvFile(cols, n, text) == [exists |-> TRUE, columns |-> cols, nrows |-> n, text |-> text]

NoFrame == [columns |-> {}, index |-> <<>>, data |-> <<>>, dtype |-> <<>>]
NoFile == [exists |-> FALSE, frame |-> NoFrame]
Written(frame) == [exists |-> TRUE, frame |-> frame]

\* df[c] = column, dtype: the column is added or replaced
SetColumn(frame, c, cells, dt) ==
    [frame EXCEPT !.columns = @ \cup {c},
                  !.data = [x \in frame.columns \cup {c} |-> IF x = c THEN cells ELSE frame.data[x]],
                  !.dtype = [x \in frame.columns \cup {c} |-> IF x = c THEN dt ELSE frame.dtype[x]]]

\* the rows at the given positions, in that order
TakeRows(frame, positions) ==
    [frame EXCEPT !.index = [k \in DOMAIN positions |-> frame.index[positions[k]]],
                  !.data = [c \in frame.columns |->
                               [k \in DOMAIN positions |-> frame.data[c][positions[k]]]]]

NRows(frame) == Len(frame.index)

\* pd.read_csv of one column: the empty field is missing; a column whose fields
\* are all numbers (or empty) is numeric, any other column holds its texts
ReadCsvColumn(texts) ==
    LET present == {i \in DOMAIN texts : texts[i] # <<>>}
        numeric == \A i \in present : ParseNumber(texts[i]) # NA
        cells == [i \in DOMAIN texts |->
                     IF texts[i] = <<>> THEN NA
                     ELSE IF numeric THEN ParseNumber(texts[i]) ELSE Str(texts[i])]
        dt == IF ~numeric THEN "object"
              ELSE IF present = DOMAIN texts /\ \A i \in present : IsIntegral(cells[i])
                   THEN "int64" ELSE "float64"
    IN [cells |-> cells, dtype |-> dt]

read_csv(file) ==
    [columns |-> file.columns,
     index |-> [i \in 1..file.nrows |-> i - 1],
     data |-> [c \in file.columns |-> ReadCsvColumn(file.text[c]).cells],
     dtype |-> [c \in file.columns |-> ReadCsvColumn(file.text[c]).dtype]]

----------------------------------------------------------------------------
(* Helpers: structural *)

\* faulty variant: the fallback taken for the column as a whole, not row by row
combine_first_whole_column(a, b) == IF \E i \in DOMAIN a : NotNA(a[i]) THEN a ELSE b

\* a.combine_first(b), row by row
combine_first(a, b) == [i \in DOMAIN a |-> IF NotNA(a[i]) THEN a[i] ELSE b[i]]

CommonDtype(x, y) ==
    IF x = y THEN x ELSE IF "object" \in {x, y} THEN "object" ELSE "float64"

\* df.get(name) is None for an absent column, and None has no combine_first
CanCoalesce(frame, f) == StandardCol(f) \in frame.columns /\ MiscCol(f) \in frame.columns

coalesce(frame, f) ==
    combine_first(frame.data[StandardCol(f)], frame.data[MiscCol(f)])

RECURSIVE CanonicalFrom(_, _)
CanonicalFrom(frame, k) ==
    IF k > Len(CanonFields) THEN frame
    ELSE LET f == CanonFields[k]
         IN CanonicalFrom(
                SetColumn(frame, f, coalesce(frame, f),
                          CommonDtype(frame.dtype[StandardCol(f)], frame.dtype[MiscCol(f)])),
                k + 1)

build_canonical(frame) == CanonicalFrom(frame, 1)

BuildCanonicalRaises(frame) == \E k \in DOMAIN CanonFields : ~CanCoalesce(frame, CanonFields[k])

drop_redundant_source_cols(frame) ==
    LET keep == frame.columns \ to_drop
    IN [frame EXCEPT !.columns = keep,
                     !.data = [c \in keep |-> frame.data[c]],
                     !.dtype = [c \in keep |-> frame.dtype[c]]]

----------------------------------------------------------------------------
(* Helpers: typing / cleaning *)

CleanStringCell(c) == EmptyToNA(StrStrip(AsString(c)))

clean_strings(frame, cols) ==
    [frame EXCEPT
        !.data = [c \in frame.columns |->
                     IF c \in Range(cols) THEN [i \in DOMAIN frame.data[c] |-> CleanStringCell(frame.data[c][i])]
                     ELSE frame.data[c]],
        !.dtype = [c \in frame.columns |->
                      IF c \in Range(cols) THEN "string" ELSE frame.dtype[c]]]

\* faulty variant: the thousands separator is left in
SanitizeCellKeepsCommas(c) ==
    StrRemove(StrRemove(StrRemove(AsString(c), {"THIN", "NBSP"}), {"EM"}), {"-"})

\* sanitize common junk first: thin/nbsp spaces, thousands separator, em dash,
\* plain dash used as NA
SanitizeCell(c) ==
    StrRemove(StrRemove(StrRemove(StrRemove(AsString(c), {"THIN", "NBSP"}), {","}), {"EM"}), {"-"})

CoerceIntCell(c, dt) == ToNumeric(IF dt = "object" THEN SanitizeCell(c) ELSE c)

\* whether some value of the column is no whole number
Int64Fails(cells) == \E i \in DOMAIN cells : NotNA(cells[i]) /\ ~IsIntegral(cells[i])

\* a masked Float64 value cast to Int64: the decimals are cut off
Truncate(c) ==
    IF c.t # "num" THEN c
    ELSE IF c.n < 0 THEN Num(0 - ((0 - c.n) \div Pow10(c.d)), 0)
    ELSE Num(c.n \div Pow10(c.d), 0)

\* One column of coerce_nullable_ints.  s.astype("Int64") succeeds when every
\* value is whole.  Otherwise the outcome depends on what to_numeric returned
\* for the sanitized "string" series: a float64 array, whose cast raises (the
\* except branch keeps the column as float), or, with masked set, a masked
\* Float64 array, whose cast cuts the decimals off.  A column that was not
\* object is a float64 array in either case.
CoerceIntColumn(cells, dt, masked) ==
    LET s == [i \in DOMAIN cells |-> CoerceIntCell(cells[i], dt)]
    IN IF ~Int64Fails(s) THEN [cells |-> s, dtype |-> "Int64"]
       ELSE IF dt = "object" /\ masked
            THEN [cells |-> [i \in DOMAIN s |-> Truncate(s[i])], dtype |-> "Int64"]
            ELSE [cells |-> s, dtype |-> "float64"]

coerce_nullable_ints(frame, cols, masked) ==
    [frame EXCEPT
        !.data = [c \in frame.columns |->
                     IF c \in Range(cols)
                     THEN CoerceIntColumn(frame.data[c], frame.dtype[c], masked).cells
                     ELSE frame.data[c]],
        !.dtype = [c \in frame.columns |->
                      IF c \in Range(cols)
                      THEN CoerceIntColumn(frame.data[c], frame.dtype[c], masked).dtype
                      ELSE frame.dtype[c]]]

\* the "[coerce_nullable_ints] Failed on ..." lines, in the order of cols
CoerceIntDiagnostics(frame, cols, masked) ==
    LET failed == SelectSeq(cols, LAMBDA c :
                      c \in frame.columns
                      /\ CoerceIntColumn(frame.data[c], frame.dtype[c], masked).dtype = "float64")
    IN [k \in DOMAIN failed |-> <<"coerce_nullable_ints failed", failed[k]>>]

coerce_floats(frame, cols) ==
    [frame EXCEPT
        !.data = [c \in frame.columns |->
                     IF c \in Range(cols) THEN [i \in DOMAIN frame.data[c] |-> ToNumeric(frame.data[c][i])]
                     ELSE frame.data[c]],
        !.dtype = [c \in frame.columns |->
                      IF c \in Range(cols) THEN "float64" ELSE frame.dtype[c]]]

----------------------------------------------------------------------------
(* Dedupe and split *)

\* df.notna().sum(axis=1) at one row
nnz(frame, i) == Cardinality({c \in frame.columns : NotNA(frame.data[c][i])})

Perms(n) == {p \in [1..n -> 1..n] : \A a, b \in 1..n : p[a] = p[b] => a = b}

\* faulty variant: ascending order: the least complete row comes first
sort_values_ascending(frame) ==
    {p \in Perms(NRows(frame)) :
        \A a, b \in 1..NRows(frame) : a < b => nnz(frame, p[a]) <= nnz(frame, p[b])}

\* sort_values("_nnz", ascending=False) with the default kind="quicksort", which
\* is not stable: every order of the rows in which _nnz never increases
sort_values(frame) ==
    {p \in Perms(NRows(frame)) :
        \A a, b \in 1..NRows(frame) : a < b => nnz(frame, p[a]) >= nnz(frame, p[b])}

\* faulty variant: drop_duplicates without subset: whole rows are compared
SameKeyAllColumns(frame, i, j) == \A c \in frame.columns : frame.data[c][i] = frame.data[c][j]

\* drop_duplicates compares the key cells; missing equals missing
SameKey(frame, i, j) == \A k \in DOMAIN KeyCols : frame.data[KeyCols[k]][i] = frame.data[KeyCols[k]][j]

\* drop_duplicates(subset=key, keep="first") on the rows in order p
drop_duplicates(frame, p) ==
    LET kept == {a \in DOMAIN p : \A b \in 1..(a - 1) : ~SameKey(frame, p[a], p[b])}
        positions == SelectSeq([a \in DOMAIN p |-> a], LAMBDA a : a \in kept)
    IN TakeRows(frame, [k \in DOMAIN positions |-> p[positions[k]]])

\* the key columns drop_duplicates and the split look up
HasKeyCols(frame) == Range(KeyCols) \subseteq frame.columns

\* the results dedupe_rows can return
dedupe_rows(frame) == {drop_duplicates(frame, p) : p \in sort_values(frame)}

\* df["season"] != CURRENT_SEASON as a mask: on a "string" column the comparison
\* with a missing value is <NA>, which indexing takes as False
SeasonMask(frame, i) ==
    LET c == frame.data["season"][i]
    IN IF IsNA(c) THEN frame.dtype["season"] # "string"
       ELSE c # Str(CURRENT_SEASON)

split_historical(frame) ==
    LET all == [i \in 1..NRows(frame) |-> i]
    IN TakeRows(frame, SelectSeq(all, LAMBDA i : SeasonMask(frame, i)))

----------------------------------------------------------------------------
(* main(), one action per statement.  An exception that nothing catches ends  *)
(* the run: pc = "aborted".                                                    *)

\* faulty variant: the output directory is made before the load
LoadAfterMkdir ==
    /\ pc = "load"
    /\ outDir' = TRUE
    /\ IF inputCsv.exists
       THEN df' = read_csv(inputCsv) /\ pc' = "canon"
       ELSE df' = df /\ pc' = "aborted"
    /\ UNCHANGED <<inputCsv, given, historical, outCsv, outParquet, stdout>>

Load ==
    /\ pc = "load"
    /\ IF inputCsv.exists
       THEN df' = read_csv(inputCsv) /\ pc' = "canon"
       ELSE df' = df /\ pc' = "aborted"
    /\ UNCHANGED <<inputCsv, given, historical, outDir, outCsv, outParquet, stdout>>

BuildCanonical ==
    /\ pc = "canon"
    /\ IF BuildCanonicalRaises(df)
       THEN df' = df /\ pc' = "aborted"
       ELSE df' = build_canonical(df) /\ pc' = "drop"
    /\ UNCHANGED <<inputCsv, given, historical, outDir, outCsv, outParquet, stdout>>

DropRedundantSourceCols ==
    /\ pc = "drop"
    /\ df' = drop_redundant_source_cols(df)
    /\ pc' = "strings"
    /\ UNCHANGED <<inputCsv, given, historical, outDir, outCsv, outParquet, stdout>>

CleanStrings ==
    /\ pc = "strings"
    /\ df' = clean_strings(df, canon_str)
    /\ pc' = "ints"
    /\ UNCHANGED <<inputCsv, given, historical, outDir, outCsv, outParquet, stdout>>

CoerceNullableInts ==
    /\ pc = "ints"
    /\ \E masked \in BOOLEAN :
          /\ df' = coerce_nullable_ints(df, int_cols, masked)
          /\ stdout' = stdout \o CoerceIntDiagnostics(df, int_cols, masked)
    /\ pc' = "floats"
    /\ UNCHANGED <<inputCsv, given, historical, outDir, outCsv, outParquet>>

CoerceFloats ==
    /\ pc = "floats"
    /\ df' = coerce_floats(df, float_cols)
    /\ pc' = "dedupe"
    /\ UNCHANGED <<inputCsv, given, historical, outDir, outCsv, outParquet, stdout>>

DedupeRows ==
    /\ pc = "dedupe"
    /\ given' = df
    /\ IF HasKeyCols(df)
       THEN df' \in dedupe_rows(df) /\ pc' = "split"
       ELSE df' = df /\ pc' = "aborted"
    /\ UNCHANGED <<inputCsv, historical, outDir, outCsv, outParquet, stdout>>

SplitHistorical ==
    /\ pc = "split"
    /\ IF "season" \in df.columns
       THEN historical' = split_historical(df) /\ pc' = "mkdir"
       ELSE historical' = historical /\ pc' = "aborted"
    /\ UNCHANGED <<inputCsv, given, df, outDir, outCsv, outParquet, stdout>>

MakeOutputDir ==
    /\ pc = "mkdir"
    /\ outDir' = TRUE
    /\ pc' = "to_csv"
    /\ UNCHANGED <<inputCsv, given, df, historical, outCsv, outParquet, stdout>>

WriteCsv ==
    /\ pc = "to_csv"
    /\ outCsv' = Written(historical)
    /\ pc' = "to_parquet"
    /\ UNCHANGED <<inputCsv, given, df, historical, outDir, outParquet, stdout>>

\* faulty variant: the handler lets the exception through
ParquetHandlerReraises(raised) ==
    IF raised
    THEN /\ outParquet' = outParquet
         /\ stdout' = stdout
         /\ pc' = "aborted"
    ELSE /\ outParquet' = Written(historical)
         /\ stdout' = stdout
         /\ pc' = "print"

\* to_parquet inside try/except Exception: the engine writes the file or raises
\* (missing engine, unsupported types), and the handler prints and goes on
ParquetHandler(raised) ==
    IF raised
    THEN /\ outParquet' = outParquet
         /\ stdout' = Append(stdout, <<"Parquet save skipped", "">>)
         /\ pc' = "print"
    ELSE /\ outParquet' = Written(historical)
         /\ stdout' = stdout
         /\ pc' = "print"

WriteParquet ==
    /\ pc = "to_parquet"
    /\ \E raised \in BOOLEAN : ParquetHandler(raised)
    /\ UNCHANGED <<inputCsv, given, df, historical, outDir, outCsv>>

PrintDone ==
    /\ pc = "print"
    /\ stdout' = Append(stdout, <<"Finalized historical dataset written", "">>)
    /\ pc' = "done"
    /\ UNCHANGED <<inputCsv, given, df, historical, outDir, outCsv, outParquet>>

----------------------------------------------------------------------------
(* The input tables of the pipeline: up to MaxRows rows, each a choice of key, *)
(* nationality pair and statistics; a table may lack a column.                 *)

HistSeason == <<"2", "0", "2", "3", "-", "2", "0", "2", "4">>

PipelineCols == Range(KeyCols) \cup to_drop \cup {"goals", "goals_per90"}

KeyChoices ==
    {[player |-> <<"A">>, season |-> HistSeason],
     [player |-> <<" ", "A">>, season |-> HistSeason],
     [player |-> <<"A">>, season |-> CURRENT_SEASON],
     [player |-> <<"A">>, season |-> <<" ">>]}

NationalityChoices ==
    {[std |-> <<"E", "N">>, misc |-> <<>>],
     [std |-> <<" ">>, misc |-> <<"F", "R">>],
     [std |-> <<>>, misc |-> <<"F", "R">>]}

StatChoices ==
    {[goals |-> <<"7">>, per90 |-> <<"0", ".", "5">>],
     [goals |-> <<"-">>, per90 |-> <<"x">>]}

RowTexts(k, n, st) ==
    [c \in PipelineCols |->
        CASE c = "player" -> k.player
          [] c = "team" -> <<"T">>
          [] c = "league" -> <<"L">>
          [] c = "season" -> k.season
          [] c = "nationality_standard" -> n.std
          [] c = "nationality_misc" -> n.misc
          [] c = "age_standard" -> <<"2", "4">>
          [] c = "goals" -> st.goals
          [] c = "goals_per90" -> st.per90
          [] OTHER -> <<>>]

RowChoices == {RowTexts(k, n, st) : k \in KeyChoices, n \in NationalityChoices, st \in StatChoices}

AbsentChoices == {{}, {"nationality_misc"}, {"team"}}

TableOf(rows, absent) ==
    CsvFile(PipelineCols \ absent, Len(rows),
            [c \in PipelineCols \ absent |-> [i \in DOMAIN rows |-> rows[i][c]]])

InputTables ==
    {TableOf(rows, absent) :
        rows \in UNION {[1..n -> RowChoices] : n \in 0..MaxRows}, absent \in AbsentChoices}

Init ==
    /\ pc = "load"
    /\ inputCsv \in {Missing} \cup InputTables
    /\ df = NoFrame
    /\ given = NoFrame
    /\ historical = NoFrame
    /\ outDir = FALSE
    /\ outCsv = NoFile
    /\ outParquet = NoFile
    /\ stdout = <<>>

Next ==
    \/ Load
    \/ BuildCanonical
    \/ DropRedundantSourceCols
    \/ CleanStrings
    \/ CoerceNullableInts
    \/ CoerceFloats
    \/ DedupeRows
    \/ SplitHistorical
    \/ MakeOutputDir
    \/ WriteCsv
    \/ WriteParquet
    \/ PrintDone

Spec == Init /\ [][Next]_vars

----------------------------------------------------------------------------
(* Inputs for coerce_nullable_ints alone: a loaded table with the one integer *)
(* column "goals", whose first cell is any text of up to MaxCellLen           *)
(* characters (or the text 1,234) and whose other cells are companions.       *)

IntAlphabet == {"1", ",", "-", "EM", "THIN", "NBSP", ".", "x"}

IntCells == SeqsUpTo(IntAlphabet, MaxCellLen) \cup {<<"1", ",", "2", "3", "4">>}

CompanionCells == {<<>>, <<"2">>, <<"1", ".", "5">>}

IntColumns == {<<c>> \o rest : c \in IntCells, rest \in SeqsUpTo(CompanionCells, MaxCompanions)}

IntTables == {CsvFile({"goals"}, Len(col), [c \in {"goals"} |-> col]) : col \in IntColumns}

InitInts ==
    /\ pc = "ints"
    /\ inputCsv \in IntTables
    /\ df = read_csv(inputCsv)
    /\ given = NoFrame
    /\ historical = NoFrame
    /\ outDir = FALSE
    /\ outCsv = NoFile
    /\ outParquet = NoFile
    /\ stdout = <<>>

NextInts == CoerceNullableInts \/ CoerceFloats

SpecInts == InitInts /\ [][NextInts]_vars

----------------------------------------------------------------------------
(* Inputs for build_canonical alone: a loaded table with the ten source       *)
(* columns, in which up to MaxVaried identity fields carry data.              *)

StdText(f) == IF f \in {"age", "birth_year"} THEN <<"2", "4">> ELSE <<"S">>
MiscText(f) == IF f \in {"age", "birth_year"} THEN <<"2", "5">> ELSE <<"M">>

\* what a row holds for one field: nothing, _standard only, _misc only, both
PairChoices == {"none", "standard", "misc", "both"}

FieldSets == {V \in SUBSET Range(CanonFields) : Cardinality(V) <= MaxVaried}

\* rows[i][f] is row i's choice for field f of V; the other fields are empty
CanonTable(V, rows) ==
    CsvFile(to_drop, Len(rows),
            [c \in to_drop |->
                [i \in DOMAIN rows |->
                    IF \E f \in V : c = StandardCol(f) /\ rows[i][f] \in {"standard", "both"}
                    THEN StdText(CHOOSE f \in V : c = StandardCol(f))
                    ELSE IF \E f \in V : c = MiscCol(f) /\ rows[i][f] \in {"misc", "both"}
                    THEN MiscText(CHOOSE f \in V : c = MiscCol(f))
                    ELSE <<>>]])

CanonRows(V) == UNION {[1..n -> [V -> PairChoices]] : n \in 0..MaxRows}

InitCanon ==
    /\ pc = "canon"
    /\ \E V \in FieldSets : \E rows \in CanonRows(V) : inputCsv = CanonTable(V, rows)
    /\ df = read_csv(inputCsv)
    /\ given = NoFrame
    /\ historical = NoFrame
    /\ outDir = FALSE
    /\ outCsv = NoFile
    /\ outParquet = NoFile
    /\ stdout = <<>>

NextCanon == BuildCanonical \/ DropRedundantSourceCols

SpecCanon == InitCanon /\ [][NextCanon]_vars

----------------------------------------------------------------------------
(* What the claims speak about *)

\* the input table as loaded
Loaded == read_csv(inputCsv)

AfterDedupe == {"split", "mkdir", "to_csv", "to_parquet", "print", "done"}

Labels(frame) == Range(frame.index)
PosOf(frame, l) == CHOOSE k \in 1..NRows(frame) : frame.index[k] = l
RowAt(frame, k) == [c \in frame.columns |-> frame.data[c][k]]
KeyTuple(frame, k) ==
    <<frame.data["player"][k], frame.data["team"][k], frame.data["league"][k], frame.data["season"][k]>>
UniqueKeys(frame) ==
    \A i, j \in 1..NRows(frame) : i # j => KeyTuple(frame, i) # KeyTuple(frame, j)
IsBlankText(txt) == \A i \in DOMAIN txt : txt[i] = " "

----------------------------------------------------------------------------
(* C1: for every input row and every identity field, the canonical column   *)
(* holds the row's _standard value when that is present, the row's _misc    *)
(* value when only that is present, and is missing when both are missing;   *)
(* the choice is made row by row.                                           *)
C1_CanonicalPerRow ==
    pc \in {"drop", "strings"} =>
        \A k \in DOMAIN CanonFields : \A i \in 1..NRows(Loaded) :
            LET f == CanonFields[k]
                a == Loaded.data[StandardCol(f)][i]
                b == Loaded.data[MiscCol(f)][i]
                c == df.data[f][i]
            IN /\ NotNA(a) => c = a
               /\ IsNA(a) /\ NotNA(b) => c = b
               /\ IsNA(a) /\ IsNA(b) => IsNA(c)

\* one column pair with a row that has both values and a row that has _misc only
C1_Witness ==
    /\ pc = "drop"
    /\ \E k \in DOMAIN CanonFields : \E i, j \in 1..NRows(Loaded) :
          LET f == CanonFields[k]
          IN /\ NotNA(Loaded.data[StandardCol(f)][i]) /\ NotNA(Loaded.data[MiscCol(f)][i])
             /\ df.data[f][i] = Loaded.data[StandardCol(f)][i]
             /\ IsNA(Loaded.data[StandardCol(f)][j]) /\ NotNA(Loaded.data[MiscCol(f)][j])
             /\ df.data[f][j] = Loaded.data[MiscCol(f)][j]

(* C2: after dedupe_rows, and in the files written, no two rows share the   *)
(* same (player, team, league, season), also when key cells are missing or  *)
(* differed only by surrounding whitespace in the input.                    *)
C2_UniqueKey ==
    /\ pc \in AfterDedupe => UniqueKeys(df)
    /\ pc \in AfterDedupe \ {"split"} => UniqueKeys(historical)
    /\ outCsv.exists => UniqueKeys(outCsv.frame)
    /\ outParquet.exists => UniqueKeys(outParquet.frame)

\* two input rows whose players differ only by whitespace end as one output row
C2_Witness ==
    /\ pc = "done"
    /\ inputCsv.nrows = 2
    /\ inputCsv.text["player"][1] # inputCsv.text["player"][2]
    /\ inputCsv.text["season"][1] = inputCsv.text["season"][2]
    /\ NRows(outCsv.frame) = 1

(* C3 as stated: of two input rows with the same key, the one with strictly *)
(* more non-missing input fields is the one the output carries (taken for a *)
(* key whose season the split keeps).                                       *)
C3_MoreInputFieldsWins ==
    pc = "done" =>
        \A A, B \in 1..NRows(Loaded) :
            ( /\ A # B
              /\ KeyTuple(Loaded, A) = KeyTuple(Loaded, B)
              /\ nnz(Loaded, A) > nnz(Loaded, B)
              /\ Loaded.data["season"][A] = Str(HistSeason) )
            => /\ (A - 1) \in Labels(outCsv.frame)
               /\ (B - 1) \notin Labels(outCsv.frame)

(* C3 amended: of two rows with the same key in the table dedupe_rows       *)
(* receives, the one with strictly fewer non-missing cells there is never   *)
(* kept, and a row strictly more complete than every other row of its key   *)
(* is the one kept, with its values.                                        *)
C3_MoreCompleteAtDedupeWins ==
    pc \in AfterDedupe =>
        \A A, B \in 1..NRows(given) :
            (KeyTuple(given, A) = KeyTuple(given, B) /\ nnz(given, A) > nnz(given, B))
            => /\ (B - 1) \notin Labels(df)
               /\ outCsv.exists => (B - 1) \notin Labels(outCsv.frame)
               /\ (\A C \in 1..NRows(given) :
                      (C # A /\ KeyTuple(given, C) = KeyTuple(given, A))
                      => nnz(given, A) > nnz(given, C))
                  => /\ (A - 1) \in Labels(df)
                     /\ RowAt(df, PosOf(df, A - 1)) = RowAt(given, A)

\* row 1 has more input fields than row 2, yet row 2 is more complete at the
\* dedupe and is the row written
C3_Witness ==
    /\ pc = "done"
    /\ NRows(Loaded) = 2
    /\ KeyTuple(Loaded, 1) = KeyTuple(Loaded, 2)
    /\ nnz(Loaded, 1) > nnz(Loaded, 2)
    /\ nnz(given, 2) > nnz(given, 1)
    /\ outCsv.frame.index = <<1>>

(* C4: among rows of one key that tie on the highest count of non-missing   *)
(* values, the row kept is the earliest input row: every kept row carries   *)
(* the values of the first most complete row of its key.                    *)
C4_FirstOfTiedWins ==
    pc \in AfterDedupe =>
        \A k \in 1..NRows(df) :
            LET a == df.index[k] + 1
                group == {b \in 1..NRows(given) : KeyTuple(given, b) = KeyTuple(given, a)}
                best == {b \in group : \A c \in group : nnz(given, b) >= nnz(given, c)}
                first == CHOOSE b \in best : \A c \in best : b <= c
            IN RowAt(df, k) = RowAt(given, first)

(* C5: the persisted set is exactly the deduplicated rows whose season is   *)
(* not CURRENT_SEASON, a missing season included; no written row has the    *)
(* current season.                                                          *)
C5_ExactlyNotCurrent ==
    outCsv.exists =>
        /\ \A k \in 1..NRows(outCsv.frame) : outCsv.frame.data["season"][k] # Str(CURRENT_SEASON)
        /\ Labels(outCsv.frame) =
               {df.index[k] : k \in {j \in 1..NRows(df) : df.data["season"][j] # Str(CURRENT_SEASON)}}

(* C6: the CSV is complete before the Parquet write is tried; when that     *)
(* write raises, the CSV stays as written, a diagnostic is printed and the  *)
(* run ends with the success message.                                       *)
C6_ParquetFailureHarmless ==
    /\ pc \in {"to_parquet", "print", "done"} => outCsv = Written(historical)
    /\ outCsv.exists => pc \in {"to_parquet", "print", "done"}
    /\ (pc \in {"print", "done"} /\ ~outParquet.exists)
           => \E k \in DOMAIN stdout : stdout[k] = <<"Parquet save skipped", "">>
    /\ pc = "done" => stdout[Len(stdout)] = <<"Finalized historical dataset written", "">>

\* a finished run whose Parquet write failed
C6_Witness ==
    /\ pc = "done"
    /\ ~outParquet.exists
    /\ outCsv.exists
    /\ NRows(outCsv.frame) > 0

(* C7: once the table is loaded, no later step aborts the run.              *)
C7_OnlyLoadHalts ==
    pc = "aborted" => ~inputCsv.exists

(* C8: in an integer column, a text cell is parsed with commas, em dashes,  *)
(* plain dashes and thin/no-break spaces removed ("1,234" gives 1234); a    *)
(* cell of only a dash gives missing, never zero; a cell that is no number  *)
(* gives missing without raising; a missing cell stays missing.             *)
C8_IntCells ==
    /\ pc # "aborted"
    /\ pc \in {"floats", "dedupe"} =>
        \A c \in Range(int_cols) \cap Loaded.columns : \A i \in 1..NRows(Loaded) :
            LET in == Loaded.data[c][i]
                out == df.data[c][i]
                bare == SelectSeq(in.s, LAMBDA x : x \notin {",", "EM", "-", "THIN", "NBSP"})
            IN /\ IsNA(in) => IsNA(out)
               /\ in.t = "str" =>
                    /\ (bare # <<>> /\ \A k \in DOMAIN bare : bare[k] \in DigitChars)
                           => out = Num(DigitsValue(bare), 0)
                    /\ in.s = <<"1", ",", "2", "3", "4">> => out = Num(1234, 0)
                    /\ in.s \in {<<"EM">>, <<"-">>} => IsNA(out)
                    /\ ParseNumber(bare) = NA => IsNA(out)

\* the cell 1,234 next to a missing cell: coerced to 1234 and to missing
C8_Witness ==
    /\ pc = "floats"
    /\ NRows(Loaded) = 2
    /\ Loaded.data["goals"][1] = Str(<<"1", ",", "2", "3", "4">>)
    /\ df.data["goals"][1] = Num(1234, 0)
    /\ IsNA(Loaded.data["goals"][2])
    /\ IsNA(df.data["goals"][2])

(* C9: the output directory and the two files exist only after a successful *)
(* load; a run whose load fails leaves none of them.                        *)
C9_NoOutputWithoutLoad ==
    (outDir \/ outCsv.exists \/ outParquet.exists) => (inputCsv.exists /\ pc # "load")

\* a run that aborted on the load
C9_Witness ==
    /\ pc = "aborted"
    /\ ~inputCsv.exists
    /\ ~outDir /\ ~outCsv.exists /\ ~outParquet.exists

(* C10: in the written output a string identity field is missing only when  *)
(* neither source variant of that row held a non-blank value.               *)
C10_MissingOnlyIfBothBlank ==
    outCsv.exists =>
        \A k \in 1..NRows(outCsv.frame) : \A f \in {"nationality", "country_code", "position"} :
            IsNA(outCsv.frame.data[f][k])
            => LET i == outCsv.frame.index[k] + 1
               IN /\ IsBlankText(inputCsv.text[StandardCol(f)][i])
                  /\ IsBlankText(inputCsv.text[MiscCol(f)][i])

====
